---- MODULE Spec2Model ----
(***************************************************************************)
(* Read-statistics sampling of svviz2 (src/sample.py): the scan of the     *)
(* alignment file (sampleInsertSizes), the orientation classifier          *)
(* (chooseOrientation), the outlier trimmer (removeOutliers), the          *)
(* construction of ReadStatistics and its gated, cached queries.           *)
(*                                                                         *)
(* Python values are encoded so that TLC can compare them:                 *)
(*   None            <<>>              an int or other value x   <<x>>     *)
(*   "any"           <<"str", "any">>  a list of labels   <<"list", l>>    *)
(*   an orientation key (a, b)  <<a, b>>,  the key "unpaired" <<"unpaired">>*)
(*   a list          its runs in order, <<[v |-> value, n |-> repeats], ..>>*)
(*   a numpy array   [ndim |-> 1 or 2, data |-> the list of its values]    *)
(*   a quotient a/b  <<"ratio", a, b>>                                     *)
(***************************************************************************)
EXTENDS Integers, Sequences, FiniteSets, TLC

\* ------------------------------------------------------------ constants

\* len(self.insertSizes) > 1000
InsertSizeGate == 1000

\* len(self.readLengths) > 1000
ReadLengthGate == 1000

\* orientations["unpaired"] > 2500
UnpairedLimit == 2500

\* ... and count < 1000
MinPairedCount == 1000

\* def removeOutliers(data, m = 10.)
OutlierThreshold == 10

\* def sampleInsertSizes(bam, maxreads=50000, skip=0, minmapq=40, ...)
DefaultMaxReads == 50000

DefaultMinMapq == 40

\* ------------------------------------------------------------ bounds

\* Reads in an exhaustively explored alignment file (all regions together).
MaxRecords == 3

\* Regions of an exhaustively explored alignment file.
MaxRegions == 2

\* Pairs in a file whose insert sizes are explored exhaustively.
MaxInserts == 4

\* Leftmost positions of the mates range over 0..MaxPos.
MaxPos == 1

\* scoreInsertSize is asked about sizes in -MaxIsize..MaxIsize.
MaxIsize == 2

\* Cache lookups of scoreInsertSize followed per ReadStatistics.
MaxLookups == 3

\* Reads of the single-ended library.
NumUnpaired == 3000

\* Pairs of the library with alternating mate positions.
NumPairs == 2000

\* ------------------------------------------------------------ values

None == <<>>

Some(x) == <<x>>

AnyOrientation == <<"str", "any">>

PyList(l) == <<"list", l>>

Unpaired == <<"unpaired">>

Key(a, b) == <<a, b>>

Keys == {Key(a, b) : a, b \in BOOLEAN} \cup {Unpaired}

Array(l) == [ndim |-> 1, data |-> l]

\* data[True]: a boolean scalar index adds an axis, the result has shape (1, n).
NewAxis(l) == [ndim |-> 2, data |-> l]

Ratio(a, b) == <<"ratio", a, b>>

Return(v) == <<"return", v>>

Raise(e) == <<"raise", e>>

Raised(r) == r[1] = "raise"

Range(s) == {s[i] : i \in 1..Len(s)}

Abs(x) == IF x < 0 THEN -x ELSE x

\* ------------------------------------------------------------ lists

\* A list of numbers is held as its runs of equal values, in order: appending
\* a value lengthens the last run or opens a new one.
Run(v, n) == [v |-> v, n |-> n]

PushRun(l, r) ==
    IF l # <<>> /\ l[Len(l)].v = r.v
    THEN [l EXCEPT ![Len(l)].n = @ + r.n]
    ELSE Append(l, r)

\* list.append(v)
Push(l, v) == PushRun(l, Run(v, 1))

\* len(l)
RECURSIVE Size(_)
Size(l) == IF l = <<>> THEN 0 ELSE l[Len(l)].n + Size(SubSeq(l, 1, Len(l) - 1))

RECURSIVE Sum(_)
Sum(l) == IF l = <<>> THEN 0 ELSE l[Len(l)].v * l[Len(l)].n + Sum(SubSeq(l, 1, Len(l) - 1))

Values(l) == {l[i].v : i \in 1..Len(l)}

\* The runs of l merged where neighbours hold the same value.
RECURSIVE Compact(_)
Compact(l) ==
    IF l = <<>> THEN <<>> ELSE PushRun(Compact(SubSeq(l, 1, Len(l) - 1)), l[Len(l)])

\* len() of an array: the size of its first axis.
PyLen(a) == IF a.ndim = 1 THEN Size(a.data) ELSE 1

\* numpy.mean of a non-empty sample, as the quotient sum / size.
Mean(l) == Ratio(Sum(l), Size(l))

\* numpy.max
Max(l) == CHOOSE m \in Values(l) : \A v \in Values(l) : v <= m

\* ------------------------------------------------------------ reads

\* The facts of one alignment record that the scan consults.
Read(paired, read1, unmapped, secondary, proper, q, sameRef, rev, mrev, p, mp, sz, sq, nm) ==
    [is_paired |-> paired, is_read1 |-> read1,
     is_unmapped |-> unmapped, mate_is_unmapped |-> FALSE,
     is_secondary |-> secondary, is_supplementary |-> FALSE,
     is_proper_pair |-> proper, mapq |-> q,
     tid |-> 0, rnext |-> IF sameRef THEN 0 ELSE 1,
     is_reverse |-> rev, mate_is_reverse |-> mrev,
     reference_start |-> p, next_reference_start |-> mp,
     isize |-> sz, seq |-> sq, NM |-> nm]

\* Read #1 of a proper pair that passes every filter.
PairRead(rev, mrev, p, mp, sz, sq, nm) ==
    Read(TRUE, TRUE, FALSE, FALSE, TRUE, 60, TRUE, rev, mrev, p, mp, sz, sq, nm)

UnpairedRead(sq, nm) ==
    Read(FALSE, FALSE, FALSE, FALSE, FALSE, 60, TRUE, FALSE, FALSE, 0, 0, 0, sq, nm)

\* A record whose sequence is absent: read.seq is None.
NoSeqRead == UnpairedRead(None, None)

Read2 == Read(TRUE, FALSE, FALSE, FALSE, TRUE, 60, TRUE, TRUE, FALSE, 1, 0, -3, Some(2), None)

UnmappedRead == Read(TRUE, TRUE, TRUE, FALSE, FALSE, 0, TRUE, FALSE, FALSE, 0, 0, 0, Some(2), None)

SecondaryRead == Read(TRUE, TRUE, FALSE, TRUE, TRUE, 60, TRUE, FALSE, TRUE, 0, 1, 3, Some(2), None)

DiscordantRead == Read(TRUE, TRUE, FALSE, FALSE, FALSE, 60, TRUE, FALSE, FALSE, 0, 1, 9, Some(2), None)

LowMapqRead == Read(TRUE, TRUE, FALSE, FALSE, TRUE, DefaultMinMapq - 1, TRUE, FALSE, TRUE, 0, 1, 3, Some(2), None)

OtherRefRead == Read(TRUE, TRUE, FALSE, FALSE, TRUE, 60, FALSE, FALSE, TRUE, 0, 1, 0, Some(2), None)

\* Forward read #1 left of its reverse mate, and the same pair seen from the
\* mate on the right.
LeftRead(sz) == PairRead(FALSE, TRUE, 0, 1, sz, Some(2), None)

RightRead(sz) == PairRead(FALSE, TRUE, 1, 0, 0 - sz, Some(2), None)

SmallReads ==
    {UnpairedRead(Some(2), Some(1)), NoSeqRead, Read2, DiscordantRead, LowMapqRead,
     LeftRead(3), RightRead(3), PairRead(TRUE, TRUE, 0, 1, 3, Some(2), Some(0))}

FilteredReads == {Read2, UnmappedRead, SecondaryRead, DiscordantRead, LowMapqRead, OtherRefRead}

\* Every strand combination and every order of the mates' positions.
PairReads ==
    {PairRead(rev, mrev, p, mp, 3, Some(2), None) :
        rev \in BOOLEAN, mrev \in BOOLEAN, p \in 0..MaxPos, mp \in 0..MaxPos}

InsertValues == {0, 1, -2, 10, -11}

InsertReads == {LeftRead(v) : v \in InsertValues}

NoRead == [fetched |-> FALSE]

\* ------------------------------------------------------------ alignment files

\* A region of the file: n records, record k drawn from pat[((k-1) % Len(pat)) + 1].
\* Each region is what bam.fetch(chrom, start, end) yields for one region of
\* getSearchRegions, in its order.
Region(n, pat) == [n |-> n, pat |-> pat]

RECURSIVE Total(_)
Total(shape) == IF shape = <<>> THEN 0 ELSE Head(shape) + Total(Tail(shape))

Shapes(maxRegions, maxRecords) ==
    {sh \in UNION {[1..k -> 0..maxRecords] : k \in 0..maxRegions} : Total(sh) <= maxRecords}

File(shape, pat) == [i \in 1..Len(shape) |-> Region(shape[i], pat)]

SmallBams == {File(sh, <<SmallReads>>) : sh \in Shapes(MaxRegions, MaxRecords)}

FilterBams == {File(<<n>>, <<FilteredReads>>) : n \in 1..2}

PairBams == {File(<<1>>, <<PairReads>>)}

InsertBams == {File(<<n>>, <<InsertReads>>) : n \in 0..MaxInserts}

LongRead == UnpairedRead(Some(100), None)

UnpairedPat == <<{LongRead}>>

\* NumUnpaired unpaired reads and nothing else, split over regions in several ways.
UnpairedBams ==
    {File(sh, UnpairedPat) :
        sh \in {<<NumUnpaired>>,
                <<UnpairedLimit + 1, NumUnpaired - UnpairedLimit - 1>>,
                <<NumUnpaired \div 2, NumUnpaired - (NumUnpaired \div 2)>>}}

LeftRight(sz) == <<{LeftRead(sz)}, {RightRead(sz)}>>

RightLeft(sz) == <<{RightRead(sz)}, {LeftRead(sz)}>>

\* NumPairs proper pairs, raw orientation (False, True), mate positions
\* alternating; in one region, or in two regions of different insert sizes.
AlternatingBams ==
    {<<Region(NumPairs, pat)>> : pat \in {LeftRight(300), RightLeft(300)}}
    \cup {<<Region(NumPairs \div 2, LeftRight(300)),
            Region(NumPairs - (NumPairs \div 2), LeftRight(302))>>,
          <<Region(NumPairs \div 2, RightLeft(300)),
            Region(NumPairs - (NumPairs \div 2), RightLeft(302))>>}

\* Pair counts around the sample-size gate, of three insert sizes.
GateBams ==
    {<<Region(n \div 3, LeftRight(300)), Region(n \div 3, LeftRight(302)),
       Region(n - 2 * (n \div 3), LeftRight(304))>> :
        n \in {InsertSizeGate - 1, InsertSizeGate, InsertSizeGate + 1}}

\* More pairs than the gate asks for, all with the same insert size.
UniformBams == {<<Region(InsertSizeGate + 1, LeftRight(300))>>}

PairsPat == LeftRight(300)

\* A flood of unpaired reads, then regions that hold proper pairs.
FloodBams ==
    {<<Region(n, UnpairedPat), Region(2, PairsPat), Region(1, UnpairedPat)>> :
        n \in {UnpairedLimit + 1, UnpairedLimit + 2}}
    \cup {<<Region(1, PairsPat), Region(UnpairedLimit + 2, UnpairedPat), Region(2, PairsPat)>>}
    \cup {<<Region(MinPairedCount, PairsPat), Region(UnpairedLimit + 2, UnpairedPat),
            Region(2, PairsPat)>>}

LargeBams == UnpairedBams \cup AlternatingBams \cup GateBams \cup UniformBams \cup FloodBams

\* A call of sampleInsertSizes: the file and the parameters.
Call(b, maxreads, skip) == [bam |-> b, maxreads |-> maxreads, skip |-> skip]

Calls ==
    {Call(b, m, 0) : b \in SmallBams, m \in {1, 2, DefaultMaxReads}}
    \cup {Call(b, DefaultMaxReads, 1) : b \in SmallBams}
    \cup {Call(b, DefaultMaxReads, 0) :
            b \in FilterBams \cup PairBams \cup InsertBams \cup LargeBams}

\* ------------------------------------------------------------ removeOutliers

\* How many values of l are below v, and how many are at most v.
NumBelow(l, v) == Size(SelectSeq(l, LAMBDA r : r.v < v))

NumAtMost(l, v) == Size(SelectSeq(l, LAMBDA r : r.v <= v))

\* The k-th smallest value of l (l sorted, then indexed).
Kth(l, k) == CHOOSE v \in Values(l) : NumBelow(l, v) < k /\ k <= NumAtMost(l, v)

\* Twice numpy.median(l): the middle value, or the mean of the two middle values.
Median2(l) ==
    LET n == Size(l)
    IN IF n % 2 = 1 THEN 2 * Kth(l, (n + 1) \div 2)
       ELSE Kth(l, n \div 2) + Kth(l, (n \div 2) + 1)

\* s < m for one value v, with s = d / mdev, d = v - median and mdev > 0;
\* med2 is twice the median and mdev4 four times mdev.
BelowThresholdTwoSided(v, med2, mdev4) == 2 * Abs(2 * v - med2) < OutlierThreshold * mdev4

BelowThreshold(v, med2, mdev4) == 2 * (2 * v - med2) < OutlierThreshold * mdev4

\* With mdev = 0, s is the scalar 0. and data[s<m] is data[True].
removeOutliers(data) ==
    IF Size(data) < 2 THEN Array(data)
    ELSE LET med2 == Median2(data)
             d_abs2 == [i \in 1..Len(data) |-> Run(Abs(2 * data[i].v - med2), data[i].n)]
             mdev4 == Median2(d_abs2)
         IN IF mdev4 = 0 THEN NewAxis(data)
            ELSE Array(Compact(SelectSeq(data, LAMBDA r : BelowThreshold(r.v, med2, mdev4))))

\* ------------------------------------------------------------ chooseOrientation

\* A collections.Counter: the keys in the order of their first increment, and
\* the counts (0 for a key never incremented).
EmptyCounter == [order |-> <<>>, count |-> [k \in Keys |-> 0]]

Increment(c, k) ==
    [order |-> IF k \in Range(c.order) THEN c.order ELSE Append(c.order, k),
     count |-> [c.count EXCEPT ![k] = @ + 1]]

\* x put into the ascending list after every key whose count is not larger.
InsertRanked(ranked, x, count) ==
    LET j == Cardinality({i \in 1..Len(ranked) : count[ranked[i]] <= count[x]})
    IN SubSeq(ranked, 1, j) \o <<x>> \o SubSeq(ranked, j + 1, Len(ranked))

\* sorted(orientations, key=lambda x: orientations[x]): ascending and stable.
RECURSIVE Ranked(_, _)
Ranked(order, count) ==
    IF order = <<>> THEN <<>>
    ELSE InsertRanked(Ranked(SubSeq(order, 1, Len(order) - 1), count), order[Len(order)], count)

\* The while loop: candidates popped from the end of ranked.
RECURSIVE Chosen(_, _, _)
Chosen(chosen, ranked, count) ==
    IF ranked = <<>> THEN chosen
    ELSE LET candidate == ranked[Len(ranked)]
         IN IF count[chosen[Len(chosen)]] < 2 * count[candidate]
            THEN Chosen(Append(chosen, candidate), SubSeq(ranked, 1, Len(ranked) - 1), count)
            ELSE chosen

Strand(x) == IF x THEN "-" ELSE "+"

\* "".join(d[x] for x in o) of a boolean pair.
Label(o) == Strand(o[1]) \o Strand(o[2])

chooseOrientation(orientations) ==
    LET ranked == Ranked(orientations.order, orientations.count)
    IN IF ranked = <<>> THEN Raise("IndexError")
       ELSE LET chosen == Chosen(<<ranked[Len(ranked)]>>, SubSeq(ranked, 1, Len(ranked) - 1),
                                 orientations.count)
            IN IF chosen[1] = Unpaired THEN Return(AnyOrientation)
               ELSE IF Unpaired \in Range(chosen) THEN Raise("KeyError")
               ELSE Return(PyList([i \in 1..Len(chosen) |-> Label(chosen[i])]))

\* ------------------------------------------------------------ sampleInsertSizes

RawOrientation(read) == Key(read.is_reverse, read.mate_is_reverse)

SwappedOrientation(read) ==
    IF read.reference_start > read.next_reference_start
    THEN Key(read.mate_is_reverse, read.is_reverse)
    ELSE Key(read.is_reverse, read.mate_is_reverse)

\* curOrient, after the inversion for a read right of its mate.
CanonicalOrientation(read) ==
    IF read.reference_start > read.next_reference_start
    THEN Key(~read.is_reverse, ~read.mate_is_reverse)
    ELSE Key(read.is_reverse, read.mate_is_reverse)

\* tally_nm with reference=None: the NM tag is appended when the read has one.
tally_nm(nms, read) == IF read.NM # None THEN Push(nms, read.NM[1]) ELSE nms

\* The locals of sampleInsertSizes. bailouts counts the early exits taken.
NewScan(maxreads, skip) ==
    [inserts |-> <<>>, readLengths |-> <<>>, nms |-> <<>>, count |-> 0,
     orientations |-> EmptyCounter, discordant |-> 0, concordant |-> 0,
     skip |-> skip, maxreads |-> maxreads, bailouts |-> 0]

EarlyExitOnce(sc) ==
    /\ sc.orientations.count[Unpaired] > UnpairedLimit
    /\ sc.count < MinPairedCount
    /\ sc.bailouts = 0

\* "bail out early if it looks like it's single-ended"
EarlyExit(sc) ==
    /\ sc.orientations.count[Unpaired] > UnpairedLimit
    /\ sc.count < MinPairedCount

\* The filters between the unpaired branch and the tally of a pair.
Filtered(read) ==
    \/ ~read.is_read1
    \/ read.is_unmapped \/ read.mate_is_unmapped
    \/ read.is_secondary \/ read.is_supplementary
    \/ ~read.is_proper_pair
    \/ read.mapq < DefaultMinMapq
    \/ read.tid # read.rnext

\* The reads that reach the proper-pair test, and what it counts.
ReachesProperTest(read) ==
    /\ read.is_read1
    /\ ~(read.is_unmapped \/ read.mate_is_unmapped)
    /\ ~(read.is_secondary \/ read.is_supplementary)

\* The statements after the loops: the classifier, the trimmer and the
\* discordant fraction, in the order they are evaluated.
Results(sc) ==
    LET chosenOrientations == chooseOrientation(sc.orientations)
    IN IF Raised(chosenOrientations) THEN chosenOrientations
       ELSE IF sc.discordant + sc.concordant = 0 THEN Raise("ZeroDivisionError")
       ELSE Return([insertSizes |-> removeOutliers(sc.inserts),
                    orientations |-> chosenOrientations[2],
                    readLengths |-> sc.readLengths,
                    number_mismatches |-> sc.nms,
                    discordant_frac |-> Ratio(sc.discordant, sc.discordant + sc.concordant)])

\* ------------------------------------------------------------ ReadStatistics

PyInt(n) == <<"int", n>>

PyBool(b) == <<"bool", b>>

\* The value of the density model at x: self._insertSizeKDE(isize)[0].
Density(x) == <<"density", x>>

\* The object gaussian_kde(self.insertSizes) returns.
GaussianKde == <<"gaussian_kde">>

\* The fields set at the top of ReadStatistics.__init__. discordant_frac is
\* not set there: None stands for the missing attribute.
NewReadStatistics ==
    [insertSizes |-> Array(<<>>), readLengths |-> <<>>, orientations |-> PyList(<<>>),
     number_mismatches |-> <<>>, insertSizeKDE |-> None, singleEnded |-> FALSE,
     insertSizeScores |-> <<>>, max_insert_size |-> None, discordant_frac |-> None]

hasInsertSizeDistributionAtLeast(s) == PyLen(s.insertSizes) >= InsertSizeGate

hasInsertSizeDistribution(s) == PyLen(s.insertSizes) > InsertSizeGate

hasReadLengthDistribution(s) == Size(s.readLengths) > ReadLengthGate

\* maxInsertSize(): the object after the call, and the value returned.
AfterMaxInsertSize(s) ==
    IF s.max_insert_size = None /\ hasInsertSizeDistribution(s)
    THEN [s EXCEPT !.max_insert_size = PyInt(Max(s.insertSizes.data))]
    ELSE s

StoreResultsPartial(s, sc, r) ==
    IF Raised(r)
    THEN [s EXCEPT !.readLengths = sc.readLengths, !.number_mismatches = sc.nms]
    ELSE LET t == [s EXCEPT !.insertSizes = r[2].insertSizes,
                            !.orientations = r[2].orientations,
                            !.readLengths = r[2].readLengths,
                            !.number_mismatches = r[2].number_mismatches,
                            !.discordant_frac = r[2].discordant_frac]
         IN IF PyLen(t.insertSizes) > 1 THEN AfterMaxInsertSize(t) ELSE t

\* The try block of ReadStatistics.__init__: r is what sampleInsertSizes
\* returned or raised, sc its locals (lost when it raises). The log line of a
\* sample of more than one value calls maxInsertSize().
StoreResults(s, sc, r) ==
    IF Raised(r) THEN s
    ELSE LET t == [s EXCEPT !.insertSizes = r[2].insertSizes,
                            !.orientations = r[2].orientations,
                            !.readLengths = r[2].readLengths,
                            !.number_mismatches = r[2].number_mismatches,
                            !.discordant_frac = r[2].discordant_frac]
         IN IF PyLen(t.insertSizes) > 1 THEN AfterMaxInsertSize(t) ELSE t

\* logger.error(...): the error logged by the except clause, None when none.
Logged(r) == IF Raised(r) THEN Some(r[2]) ELSE None

\* Sample.__init__: single_ended is set when the orientations are "any".
single_ended(s) == s.orientations = AnyOrientation

ScoreKeySigned(isize) == isize

\* isize = abs(isize): the cache key.
ScoreKey(isize) == Abs(isize)

\* ------------------------------------------------------------ state

VARIABLES
    bam,      \* the alignment file being sampled (<<>> once sampling is over)
    ri,       \* the region the scan is in (0 before the first)
    ki,       \* the records fetched from that region
    read,     \* the record fetched last
    pc,       \* "regions", "reads", "return" (after the loops), "ready"
    scan,     \* the locals of sampleInsertSizes
    self,     \* the ReadStatistics object
    error,    \* the error logged by __init__, None when none
    result,   \* the last query and the value it returned
    kde       \* density models built, evaluations per size, the sizes asked about

vars == <<bam, ri, ki, read, pc, scan, self, error, result, kde>>

NoResult == [op |-> "none", arg |-> 0, val |-> None]

NoKde == [builds |-> 0, evals |-> [x \in 0..MaxIsize |-> 0], asked |-> <<>>]

Init ==
    \E c \in Calls :
        /\ bam = c.bam
        /\ scan = NewScan(c.maxreads, c.skip)
        /\ ri = 0
        /\ ki = 0
        /\ read = NoRead
        /\ pc = "regions"
        /\ self = NewReadStatistics
        /\ error = None
        /\ result = NoResult
        /\ kde = NoKde

\* The set the next record of the current region is drawn from.
NextReads == bam[ri].pat[(ki % Len(bam[ri].pat)) + 1]

\* Line 315, after the inner loop ends or breaks.
AfterRegion(sc) == IF sc.count >= sc.maxreads THEN "return" ELSE "regions"

\* __init__ ends: the locals are gone and the file is not read again.
Constructed(r) ==
    /\ self' = StoreResults(self, scan, r)
    /\ error' = Logged(r)
    /\ pc' = "ready"
    /\ bam' = <<>>
    /\ ri' = 0
    /\ ki' = 0
    /\ read' = NoRead
    /\ scan' = NewScan(0, 0)
    /\ UNCHANGED <<result, kde>>

\* for chrom, start, end in getSearchRegions(bam): the next region.
NextRegion ==
    /\ pc = "regions"
    /\ ri < Len(bam)
    /\ ri' = ri + 1
    /\ ki' = 0
    /\ pc' = "reads"
    /\ UNCHANGED <<bam, read, scan, self, error, result, kde>>

\* The regions are exhausted.
RegionsExhausted ==
    /\ pc = "regions"
    /\ ri = Len(bam)
    /\ pc' = "return"
    /\ UNCHANGED <<bam, ri, ki, read, scan, self, error, result, kde>>

\* The records of the region are exhausted.
RegionExhausted ==
    /\ pc = "reads"
    /\ ki = bam[ri].n
    /\ pc' = AfterRegion(scan)
    /\ UNCHANGED <<bam, ri, ki, read, scan, self, error, result, kde>>

\* if skip > 0: skip -= 1; continue
SkipRead ==
    /\ pc = "reads"
    /\ ki < bam[ri].n
    /\ scan.skip > 0
    /\ \E r \in NextReads : read' = r
    /\ ki' = ki + 1
    /\ scan' = [scan EXCEPT !.skip = @ - 1]
    /\ UNCHANGED <<bam, ri, pc, self, error, result, kde>>

\* The early exit: break out of the region's loop.
BailOut ==
    /\ pc = "reads"
    /\ ki < bam[ri].n
    /\ scan.skip = 0
    /\ EarlyExit(scan)
    /\ \E r \in NextReads : read' = r
    /\ ki' = ki + 1
    /\ scan' = [scan EXCEPT !.bailouts = @ + 1]
    /\ pc' = AfterRegion(scan)
    /\ UNCHANGED <<bam, ri, self, error, result, kde>>

\* if not read.is_paired: ...; continue
TallyUnpaired ==
    /\ pc = "reads"
    /\ ki < bam[ri].n
    /\ scan.skip = 0
    /\ ~EarlyExit(scan)
    /\ \E r \in NextReads :
        /\ ~r.is_paired
        /\ r.seq # None
        /\ read' = r
        /\ scan' = [scan EXCEPT !.orientations = Increment(@, Unpaired),
                                !.readLengths = Push(@, r.seq[1]),
                                !.nms = tally_nm(@, r)]
    /\ ki' = ki + 1
    /\ UNCHANGED <<bam, ri, pc, self, error, result, kde>>

\* A paired read that one of the filters drops.
FilterRead ==
    /\ pc = "reads"
    /\ ki < bam[ri].n
    /\ scan.skip = 0
    /\ ~EarlyExit(scan)
    /\ \E r \in NextReads :
        /\ r.is_paired
        /\ Filtered(r)
        /\ read' = r
        /\ scan' = IF ReachesProperTest(r)
                   THEN IF r.is_proper_pair
                        THEN [scan EXCEPT !.concordant = @ + 1]
                        ELSE [scan EXCEPT !.discordant = @ + 1]
                   ELSE scan
    /\ ki' = ki + 1
    /\ UNCHANGED <<bam, ri, pc, self, error, result, kde>>

\* Read #1 of a proper pair that passes the filters.
TallyPair ==
    /\ pc = "reads"
    /\ ki < bam[ri].n
    /\ scan.skip = 0
    /\ ~EarlyExit(scan)
    /\ \E r \in NextReads :
        /\ r.is_paired
        /\ ~Filtered(r)
        /\ r.seq # None
        /\ read' = r
        /\ scan' = [scan EXCEPT !.concordant = @ + 1,
                                !.inserts = Push(@, Abs(r.isize)),
                                !.orientations = Increment(@, CanonicalOrientation(r)),
                                !.readLengths = Push(@, r.seq[1]),
                                !.nms = tally_nm(@, r),
                                !.count = @ + 1]
    /\ ki' = ki + 1
    /\ pc' = IF scan'.count > scan.maxreads THEN AfterRegion(scan') ELSE pc
    /\ UNCHANGED <<bam, ri, self, error, result, kde>>

\* len(read.seq) of a record without a sequence raises TypeError, which leaves
\* sampleInsertSizes and is caught in __init__.
ReadRaises ==
    /\ pc = "reads"
    /\ ki < bam[ri].n
    /\ scan.skip = 0
    /\ ~EarlyExit(scan)
    /\ \E r \in NextReads :
        /\ ~r.is_paired \/ ~Filtered(r)
        /\ r.seq = None
    /\ Constructed(Raise("TypeError"))

\* The statements after the loops, and the rest of __init__.
ReturnResults ==
    /\ pc = "return"
    /\ Constructed(Results(scan))

\* ------------------------------------------------------------ queries

Answer(op, arg, val) == [op |-> op, arg |-> arg, val |-> val]

QueryHasInsertSizeDistribution ==
    /\ pc = "ready"
    /\ result' = Answer("hasInsertSizeDistribution", 0, PyBool(hasInsertSizeDistribution(self)))
    /\ UNCHANGED <<bam, ri, ki, read, pc, scan, self, error, kde>>

QueryMeanInsertSize ==
    /\ pc = "ready"
    /\ result' = Answer("meanInsertSize", 0,
                        IF hasInsertSizeDistribution(self)
                        THEN Mean(self.insertSizes.data) ELSE None)
    /\ UNCHANGED <<bam, ri, ki, read, pc, scan, self, error, kde>>

QueryMaxInsertSize ==
    /\ pc = "ready"
    /\ self' = AfterMaxInsertSize(self)
    /\ result' = Answer("maxInsertSize", 0, self'.max_insert_size)
    /\ UNCHANGED <<bam, ri, ki, read, pc, scan, error, kde>>

QueryHasReadLengthDistribution ==
    /\ pc = "ready"
    /\ result' = Answer("hasReadLengthDistribution", 0, PyBool(hasReadLengthDistribution(self)))
    /\ UNCHANGED <<bam, ri, ki, read, pc, scan, self, error, kde>>

QueryMeanReadLength ==
    /\ pc = "ready"
    /\ result' = Answer("meanReadLength", 0,
                        IF hasReadLengthDistribution(self)
                        THEN Mean(self.readLengths) ELSE None)
    /\ UNCHANGED <<bam, ri, ki, read, pc, scan, self, error, kde>>

\* scoreInsertSize below the gate: return 0.
ScoreWithoutDistribution ==
    /\ pc = "ready"
    /\ ~hasInsertSizeDistribution(self)
    /\ \E isize \in (0 - MaxIsize)..MaxIsize :
        result' = Answer("scoreInsertSize", isize, PyInt(0))
    /\ UNCHANGED <<bam, ri, ki, read, pc, scan, self, error, kde>>

\* scoreInsertSize above the gate: the density model is built when there is
\* none, and evaluated when the cache has no entry for the key.
ScoreInsertSize ==
    /\ pc = "ready"
    /\ hasInsertSizeDistribution(self)
    /\ Len(kde.asked) < MaxLookups
    /\ \E isize \in (0 - MaxIsize)..MaxIsize :
        LET build == self.insertSizeKDE = None
            key == ScoreKey(isize)
            miss == key \notin DOMAIN self.insertSizeScores
            scores == IF miss THEN (key :> Density(Abs(key))) @@ self.insertSizeScores
                      ELSE self.insertSizeScores
        IN /\ self' = [self EXCEPT !.insertSizeKDE = IF build THEN GaussianKde ELSE @,
                                   !.insertSizeScores = scores]
           /\ kde' = [builds |-> kde.builds + (IF build THEN 1 ELSE 0),
                      evals |-> IF miss THEN [kde.evals EXCEPT ![Abs(key)] = @ + 1]
                                ELSE kde.evals,
                      asked |-> Append(kde.asked, isize)]
           /\ result' = Answer("scoreInsertSize", isize, scores[key])
    /\ UNCHANGED <<bam, ri, ki, read, pc, scan, error>>

Next ==
    \/ NextRegion
    \/ RegionsExhausted
    \/ RegionExhausted
    \/ SkipRead
    \/ BailOut
    \/ TallyUnpaired
    \/ FilterRead
    \/ TallyPair
    \/ ReadRaises
    \/ ReturnResults
    \/ QueryHasInsertSizeDistribution
    \/ QueryMeanInsertSize
    \/ QueryMaxInsertSize
    \/ QueryHasReadLengthDistribution
    \/ QueryMeanReadLength
    \/ ScoreWithoutDistribution
    \/ ScoreInsertSize

Spec == Init /\ [][Next]_vars

\* ------------------------------------------------------------ claims

Labels == {"++", "+-", "-+", "--"}

\* C1 as amended: the gate opens above 1000 samples, not at 1000. A query
\* answers from the sample exactly when len(insertSizes) > 1000:
\* hasInsertSizeDistribution() is then true, meanInsertSize() is the
\* arithmetic mean and scoreInsertSize a density; with 1000 samples or fewer
\* they are False, None and 0.
C1_GateOpensAboveThousand ==
    LET n == PyLen(self.insertSizes)
    IN /\ result.op = "hasInsertSizeDistribution" => result.val = PyBool(n > 1000)
       /\ result.op = "meanInsertSize" =>
            IF n > 1000
            THEN result.val = Ratio(Sum(self.insertSizes.data), n)
            ELSE result.val = None
       /\ result.op = "scoreInsertSize" =>
            IF n > 1000 THEN result.val[1] = "density" ELSE result.val = PyInt(0)

\* C1 as stated: the gate is open iff n >= 1000, so meanInsertSize() is a
\* number with 1000 samples.
C1_GateOpensAtThousand ==
    LET n == PyLen(self.insertSizes)
    IN /\ result.op = "hasInsertSizeDistribution" => result.val = PyBool(n >= 1000)
       /\ result.op = "meanInsertSize" => (result.val # None <=> n >= 1000)
       /\ result.op = "scoreInsertSize" => (result.val = PyInt(0) <=> n < 1000)

C1_Witness ==
    /\ pc = "ready"
    /\ PyLen(self.insertSizes) = 1001
    /\ result.op = "meanInsertSize"
    /\ result.val = Ratio(Sum(self.insertSizes.data), 1001)

\* C2: count never exceeds maxReads.
C2_CountWithinMaxReads == scan.count <= scan.maxreads

\* C3: a file of NumUnpaired unpaired reads and no paired read is constructed
\* with orientations == "any", and the Sample is single-ended.
C3_UnpairedOnlyIsAny ==
    [][(pc = "return" /\ bam \in UnpairedBams) =>
        (self'.orientations = AnyOrientation /\ single_ended(self'))]_vars

\* Reads left of their mate in a file of alternating pairs.
LeftsOf(b) ==
    Total([i \in 1..Len(b) |->
            Cardinality({k \in 1..b[i].n :
                \A r \in b[i].pat[((k - 1) % Len(b[i].pat)) + 1] :
                    r.reference_start < r.next_reference_start})])

\* C4 as amended: the pairs of raw orientation (False, True) are tallied under
\* two keys, (False, True) for a read left of its mate and (True, False) for
\* a read right of its mate, and the classifier returns both labels.
C4_TwoKeysTwoLabels ==
    [][/\ (bam \in AlternatingBams /\ scan'.count = scan.count + 1) =>
            scan'.orientations =
                Increment(scan.orientations,
                          IF read'.reference_start < read'.next_reference_start
                          THEN Key(FALSE, TRUE) ELSE Key(TRUE, FALSE))
       /\ (pc = "return" /\ bam \in AlternatingBams) =>
        /\ scan.count = NumPairs
        /\ scan.orientations.count[Key(FALSE, TRUE)] = LeftsOf(bam)
        /\ scan.orientations.count[Key(TRUE, FALSE)] = NumPairs - LeftsOf(bam)
        /\ self'.orientations[1] = "list"
        /\ Range(self'.orientations[2]) = {"+-", "-+"}
        /\ Len(self'.orientations[2]) = 2]_vars

\* C4 as stated: all the pairs under one key, one label returned.
C4_OneKeyOneLabel ==
    [][(pc = "return" /\ bam \in AlternatingBams) =>
        /\ \E k \in Keys : scan.orientations.count[k] = NumPairs
        /\ self'.orientations[1] = "list"
        /\ Len(self'.orientations[2]) = 1]_vars

C4_Witness ==
    /\ pc = "ready"
    /\ Size(self.readLengths) = NumPairs
    /\ self.orientations = PyList(<<"-+", "+-">>)

\* C5: on a tally with a counted record chooseOrientation does not fail, and
\* returns "any" exactly when the first chosen key is "unpaired", else a
\* non-empty list of labels.
C5_ClassifierNeverFails ==
    (pc = "return" /\ scan.orientations.order # <<>>) =>
        LET r == chooseOrientation(scan.orientations)
            ranked == Ranked(scan.orientations.order, scan.orientations.count)
        IN /\ ~Raised(r)
           /\ IF ranked[Len(ranked)] = Unpaired
              THEN r[2] = AnyOrientation
              ELSE /\ r[2][1] = "list"
                   /\ r[2][2] # <<>>
                   /\ Range(r[2][2]) \subseteq Labels

\* C6: the density model is built at most once and evaluated at most once per
\* absolute size, the cache keys are non-negative, no cache entry is removed
\* or changed, and a score is the cache's entry for the absolute size.
C6_DensityCache ==
    [][/\ kde'.builds <= 1
       /\ \A x \in 0..MaxIsize : kde'.evals[x] <= 1
       /\ \A k \in DOMAIN self'.insertSizeScores : k >= 0
       /\ \A k \in DOMAIN self.insertSizeScores :
            /\ k \in DOMAIN self'.insertSizeScores
            /\ self'.insertSizeScores[k] = self.insertSizeScores[k]
       /\ (result'.op = "scoreInsertSize" /\ hasInsertSizeDistribution(self')) =>
            /\ Abs(result'.arg) \in DOMAIN self'.insertSizeScores
            /\ result'.val = self'.insertSizeScores[Abs(result'.arg)]]_vars

C6_Witness ==
    /\ kde.builds = 1
    /\ \E i, j \in 1..Len(kde.asked) :
        /\ i < j
        /\ kde.asked[i] > 0
        /\ kde.asked[j] = 0 - kde.asked[i]
        /\ kde.evals[kde.asked[i]] = 1
        /\ result.val = self.insertSizeScores[kde.asked[i]]

\* C7: when the sampling pass raised, the object keeps its empty samples and
\* orientations, the queries answer None and scoreInsertSize 0, and neither
\* the density model nor the cache is touched.
C7_FailedPassLeavesNothing ==
    error # None =>
        /\ pc = "ready"
        /\ self.insertSizes = Array(<<>>)
        /\ self.readLengths = <<>>
        /\ self.number_mismatches = <<>>
        /\ self.orientations = PyList(<<>>)
        /\ self.insertSizeKDE = None
        /\ DOMAIN self.insertSizeScores = {}
        /\ kde = NoKde
        /\ result.op \in {"meanInsertSize", "maxInsertSize", "meanReadLength"} =>
            result.val = None
        /\ result.op = "scoreInsertSize" => result.val = PyInt(0)

C7_Witness ==
    /\ error = Some("TypeError")
    /\ result.op = "scoreInsertSize"

\* A list written out value by value, and the list of a sequence of values.
RECURSIVE Expand(_)
Expand(l) ==
    IF l = <<>> THEN <<>>
    ELSE Expand(SubSeq(l, 1, Len(l) - 1)) \o [j \in 1..l[Len(l)].n |-> l[Len(l)].v]

RECURSIVE ListOf(_)
ListOf(s) == IF s = <<>> THEN <<>> ELSE Push(ListOf(SubSeq(s, 1, Len(s) - 1)), s[Len(s)])

\* The value at 0-based position k of the sorted sample.
OrderStatistic(data, k) ==
    CHOOSE v \in Range(data) :
        /\ Cardinality({i \in 1..Len(data) : data[i] < v}) <= k
        /\ Cardinality({i \in 1..Len(data) : data[i] <= v}) > k

TwiceMedian(data) ==
    OrderStatistic(data, (Len(data) - 1) \div 2) + OrderStatistic(data, Len(data) \div 2)

\* C8: removeOutliers keeps every value that is at most the median, returns
\* fewer than 2 values unchanged, removes nothing when the median absolute
\* deviation is 0, and otherwise returns, in input order, the values v with
\* v - median < 10 * mdev.
C8_OneSidedTrim ==
    pc = "return" =>
        LET data == Expand(scan.inserts)
            out == removeOutliers(scan.inserts)
            kept == Expand(out.data)
        IN IF Len(data) < 2 THEN kept = data /\ out.ndim = 1
           ELSE LET med2 == TwiceMedian(data)
                    mdev4 == TwiceMedian([i \in 1..Len(data) |-> Abs(2 * data[i] - med2)])
                IN /\ \A i \in 1..Len(data) : 2 * data[i] <= med2 => data[i] \in Range(kept)
                   /\ mdev4 = 0 => kept = data
                   /\ mdev4 > 0 =>
                        /\ out.ndim = 1
                        /\ kept = SelectSeq(data, LAMBDA v : 2 * (2 * v - med2) < 10 * mdev4)

C8_Witness ==
    /\ pc = "return"
    /\ Expand(scan.inserts) = <<1, 1, 0, 11>>
    /\ removeOutliers(scan.inserts) = Array(ListOf(<<1, 1, 0>>))

\* The key C9 expects for a tallied read: the strands of the left and the
\* right mate.
LeftRightKey(r) ==
    IF r.reference_start < r.next_reference_start
    THEN Key(r.is_reverse, r.mate_is_reverse)
    ELSE Key(r.mate_is_reverse, r.is_reverse)

\* C9 as stated: the key tallied for a pair is (leftMateReverse,
\* rightMateReverse), whichever mate is read #1.
C9_KeyIsLeftRight ==
    [][(scan'.count = scan.count + 1
        /\ read'.reference_start # read'.next_reference_start) =>
        scan'.orientations = Increment(scan.orientations, LeftRightKey(read'))]_vars

\* C9 as amended: the key is (leftMateReverse, rightMateReverse) when read #1
\* is the left mate and (not rightMateReverse, not leftMateReverse) when it is
\* the right mate; the two agree exactly for mates on opposite strands.
C9_KeyIsStrandFlip ==
    [][(scan'.count = scan.count + 1
        /\ read'.reference_start # read'.next_reference_start) =>
        LET lr == LeftRightKey(read')
            flipped == Key(~lr[2], ~lr[1])
        IN /\ scan'.orientations =
                Increment(scan.orientations,
                          IF read'.reference_start < read'.next_reference_start
                          THEN lr ELSE flipped)
           /\ flipped = lr <=> lr[1] # lr[2]]_vars

C9_Witness ==
    /\ pc = "reads"
    /\ ki = 1
    /\ scan.count = 1
    /\ read.reference_start > read.next_reference_start
    /\ ~read.is_reverse
    /\ ~read.mate_is_reverse
    /\ scan.orientations.order = <<Key(TRUE, TRUE)>>

\* The samples, the tally and the counters of the scan.
Sampled(sc) ==
    <<sc.inserts, sc.readLengths, sc.nms, sc.count, sc.orientations, sc.discordant,
      sc.concordant>>

\* C10 as stated: once the early exit has fired, the records of later regions
\* are processed: none of them is abandoned by the exit again.
C10_LaterRegionsProcessed ==
    [][(pc \in {"regions", "reads"} /\ scan.bailouts >= 1) =>
        scan'.bailouts = scan.bailouts]_vars

\* C10 as amended: once the early exit has fired no record is processed any
\* more: every later region is abandoned at its first record, and count, the
\* tally and the samples stay as they are until the scan ends.
C10_NothingAfterExit ==
    [][(pc \in {"regions", "reads"} /\ scan.bailouts >= 1) =>
        Sampled(scan') = Sampled(scan)]_vars

C10_Witness ==
    /\ scan.bailouts >= 2
    /\ ri = 2
    /\ read.is_paired
    /\ scan.count = 0

====
